---- MODULE Spec2Model ----
(***************************************************************************)
(* Model of the LitElement generation of ostinato-fetch                    *)
(* (src/ostinato-fetch.js, lines 300-606): one OstinatoFetch element, the  *)
(* promise chain of each fetch() call, the live DOM under rootEl, and the  *)
(* window.history stack.                                                   *)
(*                                                                         *)
(* A step of the model is one run-to-completion piece of JavaScript: a     *)
(* fetch() call, the settlement of a network promise together with the     *)
(* then/catch callbacks that run in the same microtask drain, or a user    *)
(* back/forward navigation together with the popstate listener.            *)
(***************************************************************************)
EXTENDS Integers, Sequences, FiniteSets, TLC

\* ------------------------------------------------------------------------
\* Bounds
\* ------------------------------------------------------------------------
\* number of fetch() calls that launch a network request
MaxFetch == 2
\* number of fetch() calls rejected with InvalidOriginError
MaxThrow == 1
\* number of user back/forward navigations
MaxNav == 1
\* the same three bounds of the specification SpecNav
MaxVisit == 3
MaxGoTo == 2
\* number of connectedCallback() calls and of clicks of SpecBinder
MaxConnect == 2
MaxClick == 2
\* number of requests launched in SpecCall
MaxCall == 2
\* number of requests launched by each element in SpecTwo
MaxFirst == 2
MaxSecond == 2
\* Polymer variant: number of requests launched, and of fetch() calls
\* between two microtask checkpoints
MaxDebounced == 2
MaxBurst == 2

\* ------------------------------------------------------------------------
\* URLs.  A url string given to fetch() is a record
\*   [org, rooted, dir, name, query, hash]:  org = "rel" for a url without
\*   origin, rooted = the path starts with "/", dir/name = the path,
\*   query = the pieces after "?", hash = the pieces after "#".
\* An absolute URL (the result of new URL(url, base)) is such a record with
\* an origin in org; it is itself a url string (URL objects stringify).
\* ------------------------------------------------------------------------
PageOrigin == "https://site"
OtherOrigin == "https://other"

Names == {"p1", "p2"}

RootedUrl(n) ==
  [org |-> "rel", rooted |-> TRUE, dir |-> "/", name |-> n,
   query |-> <<>>, hash |-> <<>>]
RelativeUrl(n) ==
  [org |-> "rel", rooted |-> FALSE, dir |-> "", name |-> n,
   query |-> <<>>, hash |-> <<>>]
AbsoluteUrl(o, n) ==
  [org |-> o, rooted |-> TRUE, dir |-> "/", name |-> n,
   query |-> <<>>, hash |-> <<>>]
\* url with the fragment identifier "#" h
WithHash(url, h) == [url EXCEPT !.hash = << <<h>> >>]
\* url with the query string "?" k "=" v
WithQuery(url, k, v) == [url EXCEPT !.query = << <<k, v>> >>]

\* a string that is no URL, with or without a base: "http://"
Malformed ==
  [org |-> "malformed", rooted |-> FALSE, dir |-> "", name |-> "",
   query |-> <<>>, hash |-> <<>>]

\* new URL(url, base) returns: it throws TypeError when it does not
CanParse(url) == url.org # "malformed"

\* the url arguments the host application passes to fetch()
UrlInputs ==
  { RootedUrl(n) : n \in Names }
    \cup { RelativeUrl("p1"), AbsoluteUrl(OtherOrigin, "p1") }

\* new URL(url, base): base is an absolute URL
NewURL(url, base) ==
  IF url.org # "rel"
    THEN url
    ELSE IF url.rooted
      THEN [url EXCEPT !.org = base.org]
      ELSE [url EXCEPT !.org = base.org, !.rooted = TRUE, !.dir = base.dir]

\* URL.pathname, as the rooted url string it is
Pathname(u) == [u EXCEPT !.org = "rel", !.query = <<>>, !.hash = <<>>]

\* String(undefined) used as a url: the relative reference "undefined"
Undefined == RelativeUrl("undefined")

\* the values the host application gives the baseUrl property
BaseUrls ==
  { [AbsoluteUrl(PageOrigin, "") EXCEPT !.dir = d] : d \in {"/", "/app/"} }
    \cup { AbsoluteUrl(OtherOrigin, "") }

\* ------------------------------------------------------------------------
\* DOM trees, by value.  An element is [id, sel, cls, text, kids]:
\*   id   the identity of the node (appendChild moves nodes, it does not
\*        copy them),
\*   sel  the selector it matches ("none" for content elements),
\*   cls  its classList, text its non-element content,
\*   kids its element children in document order.
\* ------------------------------------------------------------------------
Elem(i, s, c, t, k) == [id |-> i, sel |-> s, cls |-> c, text |-> t, kids |-> k]
Leaf(i, t) == Elem(i, "none", {}, t, <<>>)

\* "no node": the result of a querySelector that matches nothing
NoPath == <<>>

RECURSIVE FindFrom(_, _, _)
\* path (child indexes) of the first descendant of node, in document
\* order and starting at child i, that matches sel
FindFrom(node, sel, i) ==
  IF i > Len(node.kids) THEN NoPath
  ELSE IF node.kids[i].sel = sel THEN <<i>>
  ELSE LET p == FindFrom(node.kids[i], sel, 1)
       IN IF p # NoPath THEN <<i>> \o p ELSE FindFrom(node, sel, i + 1)

querySelector(root, sel) == FindFrom(root, sel, 1)

RECURSIVE NodeAt(_, _)
NodeAt(node, path) ==
  IF path = <<>> THEN node ELSE NodeAt(node.kids[Head(path)], Tail(path))

RECURSIVE ReplaceAt(_, _, _)
ReplaceAt(node, path, new) ==
  IF path = <<>> THEN new
  ELSE [node EXCEPT !.kids =
          [node.kids EXCEPT ![Head(path)] =
             ReplaceAt(node.kids[Head(path)], Tail(path), new)]]

\* ------------------------------------------------------------------------
\* Response bodies.  The server answers the requested URL with an HTML
\* document of one of these shapes; label identifies the requested path.
\* ------------------------------------------------------------------------
Shapes == {"flat", "noB", "nested", "empty"}

Label(u) == <<u.dir, u.name>>

\* new DOMParser().parseFromString(content, 'text/html'): the nodes of the
\* r-th parsed document are new nodes, numbered from 10 * r
parseFromString(shape, label, r) ==
  [title |-> label,
   root |->
     CASE shape = "flat" ->
            Elem(10 * r, "doc", {}, <<>>,
                 << Elem(10 * r + 1, "#a", {"new"}, <<>>,
                         << Leaf(10 * r + 3, label), Leaf(10 * r + 4, label) >>),
                    Elem(10 * r + 2, "#b", {}, label, <<>>) >>)
       [] shape = "noB" ->
            Elem(10 * r, "doc", {}, <<>>,
                 << Elem(10 * r + 1, "#a", {"new"}, <<>>,
                         << Leaf(10 * r + 3, label) >>) >>)
       [] shape = "nested" ->
            Elem(10 * r, "doc", {}, <<>>,
                 << Elem(10 * r + 1, "#a", {"new"}, <<>>,
                         << Leaf(10 * r + 3, label),
                            Elem(10 * r + 2, "#b", {}, <<>>,
                                 << Leaf(10 * r + 4, label) >>) >>) >>)
       [] OTHER -> Elem(10 * r, "doc", {}, <<>>, <<>>)]

\* the documents the page can show before the first fetch
LiveFlat ==
  Elem(0, "doc", {}, <<>>,
       << Elem(1, "#a", {"old"}, <<"old">>, << Leaf(3, <<"old">>) >>),
          Elem(2, "#b", {"old"}, <<>>, << Leaf(4, <<"old">>) >>) >>)

LiveNoB ==
  Elem(0, "doc", {}, <<>>,
       << Elem(1, "#a", {"old"}, <<"old">>, << Leaf(3, <<"old">>) >>) >>)

RootEls == {LiveFlat, LiveNoB}

\* the values of the target-selectors property, after split(',')
SelectorLists == { <<"#a", "#b">>, <<"#b", "#a">> }

\* the subtree a second ostinato-fetch element has as its rootEl
LiveSecond ==
  Elem(5, "doc", {}, <<>>,
       << Elem(6, "#a", {"old"}, <<"old">>, << Leaf(8, <<"old">>) >>),
          Elem(7, "#b", {"old"}, <<>>, << Leaf(9, <<"old">>) >>) >>)

\* an ostinato-fetch element after its constructor, with the fields that
\* fetch() writes and its rootEl
NewFetcher(root) ==
  [rootEl |-> root, _url |-> Undefined, aborted |-> FALSE, requests |-> <<>>,
   thrown |-> 0, typeErrors |-> 0]

\* the anchors of the page and their href attributes
Anchors == {"e1", "e2", "e3"}

Href(e) ==
  CASE e = "e1" -> RootedUrl("p1")
    [] e = "e2" -> AbsoluteUrl(OtherOrigin, "p1")
    [] OTHER -> Malformed

\* an ostinato-fetch-triggers element after its constructor, and the page
\* around it:
\*   connected  the element is in the document
\*   listener   this.listener, 0 when undefined; made counts the bound
\*              functions created so far
\*   attr       the anchors matching triggerSelector
\*   listeners  the click listeners of each anchor
\*   opened     number of window.open calls
\*   errors     number of TypeErrors thrown by triggerRequest
\*   left       a click navigated away from the page
\*   clicks     number of clicks so far, target the anchor of the last one
NewTriggers ==
  [connected |-> FALSE, listener |-> 0, made |-> 0,
   attr |-> [e \in Anchors |-> TRUE],
   listeners |-> [e \in Anchors |-> {}],
   opened |-> 0, errors |-> 0, left |-> FALSE, clicks |-> 0,
   target |-> "none"]

\* no popstate event has launched a request
NoPop == [request |-> 0, navs |-> 0, thrown |-> 0, history |-> <<>>, hidx |-> 0]

\* Polymer variant, this._fetchDebounce before the first fetch() call:
\*   queue    the callbacks scheduled with Async.microTask that wait in the
\*            microtask queue
\*   calls    number of fetch() calls since the last microtask checkpoint
\*   flushed  the value of calls at the last microtask checkpoint
NoDebouncer == [queue |-> <<>>, calls |-> 0, flushed |-> 0]

\* ------------------------------------------------------------------------
\* State
\* ------------------------------------------------------------------------
VARIABLES
  targetSelectors,   \* this.targetSelectors.split(',')
  updateHistory,     \* this.updateHistory
  baseUrl,           \* this.baseUrl
  rootEl,            \* the DOM subtree under this.rootEl
  _url,              \* this._url
  aborted,           \* this._abortController.signal.aborted
  requests,          \* the promise chains started by fetch(), in call order
  thrown,            \* number of fetch() calls that threw InvalidOriginError
  typeErrors,        \* number of fetch() calls that threw TypeError
  history,           \* window.history: the session history entries
  hidx,              \* index of the current session history entry
  title,             \* document.title
  navs,              \* number of back/forward navigations so far
  triggers,          \* the ostinato-fetch-triggers element and its anchors
  second,            \* a second ostinato-fetch element of the page
  popped,            \* the request that the last popstate event launched
  _fetchDebounce     \* Polymer variant: this._fetchDebounce

vars == << targetSelectors, updateHistory, baseUrl, rootEl, _url, aborted,
           requests, thrown, typeErrors, history, hidx, title, navs,
           triggers, second, popped, _fetchDebounce >>

config == << targetSelectors, updateHistory, baseUrl >>

\* the other elements of the page
peers == << triggers, second >>

\* an entry of the session history: state is <<>> (null) or <<the state>>
Entry(st, path) == [state |-> st, path |-> path]

\* window.location
Location == NewURL(history[hidx].path, AbsoluteUrl(PageOrigin, ""))

\* window.history.state
HistoryState == history[hidx].state

Event(n, d) == [name |-> n, detail |-> d]

Init ==
  /\ targetSelectors \in SelectorLists
  /\ updateHistory \in BOOLEAN
  /\ baseUrl \in BaseUrls
  /\ rootEl \in RootEls
  /\ _url = Undefined
  /\ aborted = FALSE
  /\ requests = <<>>
  /\ thrown = 0
  /\ typeErrors = 0
  /\ triggers = NewTriggers
  /\ second = NewFetcher(LiveSecond)
  /\ history = << Entry(<<>>, RootedUrl("index")) >>
  /\ hidx = 1
  /\ title = <<"index">>
  /\ navs = 0
  /\ popped = NoPop
  /\ _fetchDebounce = NoDebouncer

\* ------------------------------------------------------------------------
\* fetch(url, options)
\* ------------------------------------------------------------------------
\* the override options of a call without second argument
NoOptions == <<>>

\* the first argument of Object.assign in fetch()
Defaults ==
  [method |-> "get",
   headers |-> [fragments |-> targetSelectors],
   redirect |-> "follow",
   credentials |-> "same-origin"]

\* Object.assign(target, source): the keys of source override target's
ObjectAssign(target, source) ==
  [k \in DOMAIN target \cup DOMAIN source |->
     IF k \in DOMAIN source THEN source[k] ELSE target[k]]

\* delete object[key]
Delete(object, key) == [k \in DOMAIN object \ {key} |-> object[k]]

\* a value of the queryParams option: an object with its own keys in
\* order (truthy), or null (pairs is empty then)
QueryParams(pairs) == [truthy |-> TRUE, pairs |-> pairs]
Null == [truthy |-> FALSE, pairs |-> <<>>]

\* encodeURIComponent, on the strings of the model
encodeURIComponent(str) ==
  CASE str = "a b" -> "a%20b"
    [] str = "x&y" -> "x%26y"
    [] OTHER -> str

\* Object.keys(queryParams).map(k => esc(k) + '=' + esc(queryParams[k]))
Serialize(pairs) ==
  [i \in DOMAIN pairs |->
     << encodeURIComponent(pairs[i][1]), encodeURIComponent(pairs[i][2]) >>]

\* url.indexOf('?') === -1 is false
HasQuestionMark(url) ==
  url.query # <<>> \/ \E i \in DOMAIN url.hash : url.hash[i] = <<"?">>

\* url += (url.indexOf('?') === -1 ? '?' : '&') + pieces.join('&'): the
\* text is added at the end of the string, which is the end of the fragment
\* identifier when the url has one
AppendQuery(url, pieces) ==
  IF url.hash # <<>>
    THEN [url EXCEPT !.hash =
            @ \o << << IF HasQuestionMark(url) THEN "&" ELSE "?" >> >>
              \o pieces]
    ELSE [url EXCEPT !.query = @ \o pieces]

\* the request handed to the platform fetch(url, _options, {abortSignal}):
\* the platform takes two arguments, so _options carries no signal (signal)
\* and the signal of this._abortController travels in the third argument
\* (abortSignal); the platform resolves url against the document URL loc;
\* override records the options the caller gave
NetworkFetch(url, _options, override, loc, resolved) ==
  [fetched |-> NewURL(url, loc),
   resolved |-> resolved,
   options |-> _options,
   override |-> override,
   signal |-> "none",
   abortSignal |-> "controller",
   stage |-> "pending",
   shape |-> "none",
   events |-> << Event("request-started", resolved) >>]

\* a request is cancelled when the signal it was launched with is aborted
Cancelled(req) == req.signal = "controller" /\ aborted

SameOriginNoCheck(u) == TRUE

\* the origin test of fetch()
SameOrigin(u) == u.org = PageOrigin

\* the body of fetch(url, options) on the element self, run while the
\* document URL is loc: the element after the call
fetchOn(self, url, options, loc) ==
  LET merged == ObjectAssign(Defaults, options)
      hasParams == /\ "queryParams" \in DOMAIN merged
                   /\ merged.queryParams.truthy
      requested == IF hasParams
                     THEN AppendQuery(url, Serialize(merged.queryParams.pairs))
                     ELSE url
      _options == IF hasParams THEN Delete(merged, "queryParams") ELSE merged
  IN IF ~CanParse(requested)
       THEN [self EXCEPT !.typeErrors = @ + 1]
       ELSE LET resolved == NewURL(requested, baseUrl)
            IN IF SameOrigin(resolved)
                 THEN [self EXCEPT
                         !._url = resolved,
                         !.aborted = TRUE,
                         !.requests =
                           Append(@, NetworkFetch(requested, _options, options,
                                                  loc, resolved))]
                 ELSE [self EXCEPT !._url = resolved, !.thrown = @ + 1]

\* the element of the model
This ==
  [rootEl |-> rootEl, _url |-> _url, aborted |-> aborted,
   requests |-> requests, thrown |-> thrown, typeErrors |-> typeErrors]

\* the element of the model becomes after
Becomes(after) ==
  /\ _url' = after._url
  /\ aborted' = after.aborted
  /\ requests' = after.requests
  /\ thrown' = after.thrown
  /\ typeErrors' = after.typeErrors

\* fetch(url, options) on the element of the model
fetch(url, options, loc) == Becomes(fetchOn(This, url, options, loc))

\* the calls of the model stay within the bounds
WithinBounds(launches, throws) ==
  /\ Len(requests') <= launches
  /\ thrown' <= throws

\* the host application calls fetch(url)
Fetch(url) ==
  /\ fetch(url, NoOptions, Location)
  /\ WithinBounds(MaxFetch, MaxThrow)
  /\ UNCHANGED << config, rootEl, history, hidx, title, navs, popped,
                  _fetchDebounce, peers >>

\* ------------------------------------------------------------------------
\* _insertContent(doc, targetSelectorList)
\* ------------------------------------------------------------------------
\* while (target.firstChild) target.removeChild(target.firstChild)
EmptyTarget(target) == [target EXCEPT !.kids = <<>>, !.text = <<>>]

\* the if/else on content.children.length
InsertElements(target, content) ==
  IF Len(content.kids) = 0
    THEN [target EXCEPT !.text = content.text, !.kids = <<>>]
    ELSE [target EXCEPT !.kids = target.kids \o content.kids]

\* appendChild moves the nodes out of the response document
DetachChildren(content) == [content EXCEPT !.kids = <<>>]

UpdateClassesMerge(target, content) ==
  [target EXCEPT !.cls = target.cls \cup content.cls]

\* target.className = ""; target.classList.add(...content.classList)
UpdateClasses(target, content) == [target EXCEPT !.cls = content.cls]

\* one iteration of the forEach; threw = a TypeError left the loop
InsertOne(sel, doc, live) ==
  LET cp == querySelector(doc, sel)
      tp == querySelector(live, sel)
  IN IF tp = NoPath
       THEN \* target.firstChild of null
            [live |-> live, doc |-> doc, threw |-> TRUE]
       ELSE LET emptied == EmptyTarget(NodeAt(live, tp))
            IN IF cp = NoPath
                 THEN \* content.children of null, target already emptied
                      [live |-> ReplaceAt(live, tp, emptied), doc |-> doc,
                       threw |-> TRUE]
                 ELSE LET content == NodeAt(doc, cp)
                          filled == InsertElements(emptied, content)
                      IN [live |-> ReplaceAt(live, tp,
                                             UpdateClasses(filled, content)),
                          doc |-> ReplaceAt(doc, cp, DetachChildren(content)),
                          threw |-> FALSE]

RECURSIVE InsertFrom(_, _, _, _)
InsertFrom(list, i, doc, live) ==
  IF i > Len(list)
    THEN [live |-> live, doc |-> doc, threw |-> FALSE]
    ELSE LET one == InsertOne(list[i], doc, live)
         IN IF one.threw THEN one
            ELSE InsertFrom(list, i + 1, one.doc, one.live)

_insertContent(doc, targetSelectorList, live) ==
  InsertFrom(targetSelectorList, 1, doc, live)

\* ------------------------------------------------------------------------
\* _updateHistoryState(doc)
\* ------------------------------------------------------------------------
\* the state object built from the parsed document and this._url
NewState(doc) ==
  [title |-> doc.title, url |-> Pathname(NewURL(_url, baseUrl))]

StateChangedAlways(state) == TRUE

StateChangedByTitle(state) ==
  HistoryState = <<>> \/ state.title # HistoryState[1].title

\* the test that guards window.history.pushState
StateChanged(state) ==
  HistoryState = <<>> \/ state.url # HistoryState[1].url

\* window.history.pushState(state, title, path): entries after the current
\* one are dropped and the new entry becomes current
pushState(state, path) ==
  /\ history' = Append(SubSeq(history, 1, hidx), Entry(<<state>>, path))
  /\ hidx' = hidx + 1

HistoryEventsAlways(doc) ==
  << Event("history-updated",
           [url |-> NewURL(_url, baseUrl), state |-> NewState(doc)]) >>

\* the notifications of _updateHistoryState
HistoryEvents(doc) ==
  IF updateHistory /\ _url # Undefined
    THEN << Event("history-updated",
                  [url |-> NewURL(_url, baseUrl), state |-> NewState(doc)]) >>
    ELSE <<>>

_updateHistoryStateTitleOnPush(doc) ==
  IF updateHistory /\ _url # Undefined
    THEN LET state == NewState(doc)
         IN IF StateChanged(state)
              THEN pushState(state, state.url) /\ title' = state.title
              ELSE UNCHANGED << history, hidx, title >>
    ELSE UNCHANGED << history, hidx, title >>

_updateHistoryState(doc) ==
  IF updateHistory /\ _url # Undefined
    THEN LET state == NewState(doc)
         IN /\ IF StateChanged(state)
                 THEN pushState(state, state.url)
                 ELSE UNCHANGED << history, hidx >>
            /\ title' = state.title
    ELSE UNCHANGED << history, hidx, title >>

\* ------------------------------------------------------------------------
\* The promise chain of fetch():
\*   fetch(...).then(request-completed; resp.text())
\*             .then(_updateContent).catch(error)
\* ------------------------------------------------------------------------
Emit(r, stage, evs) ==
  requests' = [requests EXCEPT ![r].stage = stage,
                               ![r].events = requests[r].events \o evs]

\* the same, recording the shape of the body that was read
EmitRead(r, shape, evs) ==
  requests' = [requests EXCEPT ![r].stage = "done",
                               ![r].shape = shape,
                               ![r].events = requests[r].events \o evs]

\* the network promise fulfils: first then-callback
Respond(r) ==
  /\ r \in DOMAIN requests
  /\ requests[r].stage = "pending"
  /\ ~Cancelled(requests[r])
  /\ Emit(r, "reading", << Event("request-completed", "response") >>)
  /\ UNCHANGED << config, rootEl, _url, aborted, thrown, typeErrors,
                  history, hidx, title, navs, popped,
                  _fetchDebounce, peers >>

FailNoCatch(r) ==
  /\ r \in DOMAIN requests
  /\ requests[r].stage = "pending"
  /\ Emit(r, "failed", <<>>)
  /\ UNCHANGED << config, rootEl, _url, aborted, thrown, typeErrors,
                  history, hidx, title, navs, popped,
                  _fetchDebounce, peers >>

\* the network promise rejects: both then-callbacks are skipped, catch runs
Fail(r) ==
  /\ r \in DOMAIN requests
  /\ requests[r].stage = "pending"
  /\ Emit(r, "failed",
          << Event("error", IF Cancelled(requests[r]) THEN "AbortError"
                            ELSE "NetworkError") >>)
  /\ UNCHANGED << config, rootEl, _url, aborted, thrown, typeErrors,
                  history, hidx, title, navs, popped,
                  _fetchDebounce, peers >>

\* resp.text() rejects: the second then-callback is skipped, catch runs
TextFail(r) ==
  /\ r \in DOMAIN requests
  /\ requests[r].stage = "reading"
  /\ Emit(r, "done", << Event("error", "NetworkError") >>)
  /\ UNCHANGED << config, rootEl, _url, aborted, thrown, typeErrors,
                  history, hidx, title, navs, popped,
                  _fetchDebounce, peers >>

\* resp.text() fulfils with a body of the given shape: the second
\* then-callback runs _updateContent(text), and the catch callback runs when
\* it throws
UpdateContent(r, shape) ==
  /\ r \in DOMAIN requests
  /\ requests[r].stage = "reading"
  /\ IF shape = "empty"
       THEN \* if (content) fails on the empty string
            /\ EmitRead(r, shape, <<>>)
            /\ UNCHANGED << rootEl, history, hidx, title >>
       ELSE LET doc == parseFromString(shape, Label(requests[r].fetched), r)
                ins == _insertContent(doc.root, targetSelectors, rootEl)
            IN /\ rootEl' = ins.live
               /\ IF ins.threw
                    THEN /\ EmitRead(r, shape,
                                     << Event("error", "TypeError") >>)
                         /\ UNCHANGED << history, hidx, title >>
                    ELSE /\ EmitRead(r, shape,
                                     << Event("content-updated",
                                              targetSelectors) >>
                                       \o HistoryEvents(doc))
                         /\ _updateHistoryState(doc)
  /\ UNCHANGED << config, _url, aborted, thrown, typeErrors, navs, popped,
                  _fetchDebounce, peers >>

\* ------------------------------------------------------------------------
\* Back / forward navigation and the popstate listener of firstUpdated()
\* ------------------------------------------------------------------------
\* the listener's test: ev.state is set and its path is not this._url's
PopstateFetches(state) ==
  /\ state # <<>>
  /\ Pathname(NewURL(_url, baseUrl)) # Pathname(NewURL(state[1].url, baseUrl))

\* the user moves d entries in the session history; the popstate listener
\* runs in the same task
Traverse(d, launches, moves) ==
  /\ navs < moves
  /\ hidx + d \in 1..Len(history)
  /\ hidx' = hidx + d
  /\ navs' = navs + 1
  /\ LET ev == history[hidx + d]
     IN IF updateHistory /\ PopstateFetches(ev.state)
          THEN fetch(Pathname(NewURL(ev.state[1].url, baseUrl)), NoOptions,
                     NewURL(ev.path, AbsoluteUrl(PageOrigin, "")))
          ELSE UNCHANGED << _url, aborted, requests, thrown, typeErrors >>
  /\ popped' = IF Len(requests') > Len(requests)
                 THEN [request |-> Len(requests'), navs |-> navs',
                       thrown |-> thrown', history |-> history,
                       hidx |-> hidx']
                 ELSE popped
  /\ WithinBounds(launches, MaxThrow)
  /\ UNCHANGED << config, rootEl, history, title, _fetchDebounce, peers >>

Navigate(d) == Traverse(d, MaxFetch, MaxNav)

Next ==
  \/ \E url \in UrlInputs : Fetch(url)
  \/ \E r \in 1..MaxFetch : Respond(r)
  \/ \E r \in 1..MaxFetch : Fail(r)
  \/ \E r \in 1..MaxFetch : TextFail(r)
  \/ \E r \in 1..MaxFetch, shape \in Shapes : UpdateContent(r, shape)
  \/ \E d \in {-1, 1} : Navigate(d)

Spec == Init /\ [][Next]_vars

\* ------------------------------------------------------------------------
\* One page with history tracking, visited several times: the default
\* baseUrl, both mount nodes, urls with and without fragment identifier
\* ------------------------------------------------------------------------
NavInputs ==
  { RootedUrl(n) : n \in Names }
    \cup { WithHash(RootedUrl("p1"), "top"), AbsoluteUrl(OtherOrigin, "p1") }

NavInit ==
  /\ Init
  /\ targetSelectors = << "#a", "#b" >>
  /\ updateHistory
  /\ baseUrl = AbsoluteUrl(PageOrigin, "")
  /\ rootEl = LiveFlat

Visit(url) ==
  /\ fetch(url, NoOptions, Location)
  /\ WithinBounds(MaxVisit, MaxThrow)
  /\ UNCHANGED << config, rootEl, history, hidx, title, navs, popped,
                  _fetchDebounce, peers >>

GoTo(d) == Traverse(d, MaxVisit, MaxGoTo)

NavNext ==
  \/ \E url \in NavInputs : Visit(url)
  \/ \E r \in 1..MaxVisit : Respond(r)
  \/ \E r \in 1..MaxVisit : UpdateContent(r, "flat")
  \/ \E d \in {-1, 1} : GoTo(d)

SpecNav == NavInit /\ [][NavNext]_vars

\* ------------------------------------------------------------------------
\* ostinato-fetch-triggers
\* ------------------------------------------------------------------------
\* connectedCallback(): a new bound function is added to every anchor that
\* matches triggerSelector now
Connect ==
  /\ ~triggers.left
  /\ ~triggers.connected
  /\ triggers.made < MaxConnect
  /\ triggers' =
       [triggers EXCEPT
          !.connected = TRUE,
          !.made = @ + 1,
          !.listener = triggers.made + 1,
          !.listeners =
            [e \in Anchors |->
               IF triggers.attr[e] THEN @[e] \cup {triggers.made + 1}
               ELSE @[e]]]
  /\ UNCHANGED << config, rootEl, _url, aborted, requests, thrown, typeErrors,
                  history, hidx, title, navs, popped,
                  _fetchDebounce, second >>

DisconnectNewBind ==
  /\ ~triggers.left
  /\ triggers.connected
  /\ triggers' = [triggers EXCEPT !.connected = FALSE]
  /\ UNCHANGED << config, rootEl, _url, aborted, requests, thrown, typeErrors,
                  history, hidx, title, navs, popped,
                  _fetchDebounce, second >>

\* disconnectedCallback(): this.listener is removed from every anchor that
\* matches triggerSelector now
Disconnect ==
  /\ ~triggers.left
  /\ triggers.connected
  /\ triggers' =
       [triggers EXCEPT
          !.connected = FALSE,
          !.listeners =
            [e \in Anchors |->
               IF triggers.attr[e] THEN @[e] \ {triggers.listener}
               ELSE @[e]]]
  /\ UNCHANGED << config, rootEl, _url, aborted, requests, thrown, typeErrors,
                  history, hidx, title, navs, popped,
                  _fetchDebounce, second >>

ToggleAttributeRescans(e) ==
  /\ ~triggers.left
  /\ triggers' =
       [triggers EXCEPT
          !.attr[e] = ~@,
          !.listeners[e] =
            IF triggers.connected /\ ~triggers.attr[e]
              THEN @ \cup {triggers.listener} ELSE @]
  /\ UNCHANGED << config, rootEl, _url, aborted, requests, thrown, typeErrors,
                  history, hidx, title, navs, popped,
                  _fetchDebounce, second >>

\* the host application adds the xhr-link attribute to anchor e or removes
\* it; an anchor without the attribute and without listeners is as an
\* element that is not in the document, and the step that gives it the
\* attribute is the step that adds a matching element under rootEl
ToggleAttribute(e) ==
  /\ ~triggers.left
  /\ triggers' = [triggers EXCEPT !.attr[e] = ~@]
  /\ UNCHANGED << config, rootEl, _url, aborted, requests, thrown, typeErrors,
                  history, hidx, title, navs, popped,
                  _fetchDebounce, second >>

OffSiteOfBase(u) == u.org # baseUrl.org

\* the origin test of triggerRequest()
OffSite(u) == u.org # PageOrigin

\* triggerRequest(href) on the page st = [xhr, opened, errors], where xhr is
\* the element found by rootEl.querySelector(xhrSelector)
triggerRequest(st, href, loc) ==
  IF ~CanParse(href)
    THEN [st EXCEPT !.errors = @ + 1]
    ELSE IF OffSite(NewURL(href, baseUrl))
      THEN [st EXCEPT !.opened = @ + 1]
      ELSE [st EXCEPT !.xhr = fetchOn(@, href, NoOptions, loc)]

RECURSIVE DispatchEvent(_, _, _, _)
\* the click event runs the n listeners of its target one after the other:
\* each is _handleXhrClick(ev)
DispatchEvent(st, href, loc, n) ==
  IF n = 0 THEN st
  ELSE DispatchEvent(triggerRequest(st, href, loc), href, loc, n - 1)

\* the user clicks anchor e: its listeners run, and the browser follows the
\* link when none of them called preventDefault()
Click(e) ==
  /\ ~triggers.left
  /\ triggers.clicks < MaxClick
  /\ LET n == Cardinality(triggers.listeners[e])
         st == DispatchEvent([xhr |-> This, opened |-> triggers.opened,
                              errors |-> triggers.errors],
                             Href(e), Location, n)
     IN IF n = 0
          THEN /\ triggers' = [triggers EXCEPT !.left = TRUE,
                                               !.clicks = @ + 1,
                                               !.target = e]
               /\ UNCHANGED << _url, aborted, requests, thrown, typeErrors >>
          ELSE /\ triggers' = [triggers EXCEPT !.opened = st.opened,
                                               !.errors = st.errors,
                                               !.clicks = @ + 1,
                                               !.target = e]
               /\ Becomes(st.xhr)
  /\ UNCHANGED << config, rootEl, history, hidx, title, navs, popped,
                  _fetchDebounce, second >>

\* one page with its triggers element and the element of the model
BinderInit ==
  /\ Init
  /\ targetSelectors = << "#a", "#b" >>
  /\ ~updateHistory
  /\ rootEl = LiveFlat

BinderNext ==
  \/ Connect
  \/ Disconnect
  \/ \E e \in Anchors : ToggleAttribute(e)
  \/ \E e \in Anchors : Click(e)

SpecBinder == BinderInit /\ [][BinderNext]_vars

\* the same page with a set of matching anchors that does not change
StaticInit ==
  /\ targetSelectors = << "#a", "#b" >>
  /\ updateHistory = FALSE
  /\ baseUrl \in BaseUrls
  /\ rootEl = LiveFlat
  /\ _url = Undefined
  /\ aborted = FALSE
  /\ requests = <<>>
  /\ thrown = 0
  /\ typeErrors = 0
  /\ triggers \in { [NewTriggers EXCEPT !.attr = a] :
                      a \in [Anchors -> BOOLEAN] }
  /\ second = NewFetcher(LiveSecond)
  /\ history = << Entry(<<>>, RootedUrl("index")) >>
  /\ hidx = 1
  /\ title = <<"index">>
  /\ navs = 0
  /\ popped = NoPop
  /\ _fetchDebounce = NoDebouncer

StaticNext ==
  \/ Connect
  \/ Disconnect
  \/ \E e \in Anchors : Click(e)

SpecStatic == StaticInit /\ [][StaticNext]_vars

\* ------------------------------------------------------------------------
\* fetch(url, options) with every kind of url and of override options
\* ------------------------------------------------------------------------
CallInputs ==
  { RootedUrl("p1"), WithHash(RootedUrl("p1"), "top"),
    WithQuery(RootedUrl("p1"), "x", "1"), AbsoluteUrl(OtherOrigin, "p1"),
    Malformed }

OptionInputs ==
  { NoOptions,
    [method |-> "post"],
    [redirect |-> "manual", credentials |-> "include"],
    [queryParams |-> QueryParams(<< <<"k", "v">> >>)],
    [method |-> "post",
     queryParams |-> QueryParams(<< <<"a b", "x&y">>, <<"k", "v">> >>)],
    [queryParams |-> Null] }

CallInit ==
  /\ Init
  /\ targetSelectors = << "#a", "#b" >>
  /\ ~updateHistory
  /\ rootEl = LiveFlat

\* the host application calls fetch(url, options)
Call(url, options) ==
  /\ fetch(url, options, Location)
  /\ WithinBounds(MaxCall, MaxThrow)
  /\ typeErrors' <= MaxThrow
  /\ UNCHANGED << config, rootEl, history, hidx, title, navs, popped,
                  _fetchDebounce, peers >>

CallNext == \E url \in CallInputs, options \in OptionInputs : Call(url, options)

SpecCall == CallInit /\ [][CallNext]_vars

\* ------------------------------------------------------------------------
\* Two ostinato-fetch elements in one page.  The second element has the
\* targetSelectors and baseUrl of the first, the constructor's updateHistory
\* (false), and its own rootEl: the document holds the rootEl of the first
\* element and, after it, the rootEl of the second.
\* ------------------------------------------------------------------------
TwoInputs == { RootedUrl(n) : n \in Names }

TwoInit ==
  /\ Init
  /\ targetSelectors = << "#a", "#b" >>
  /\ ~updateHistory
  /\ baseUrl = AbsoluteUrl(PageOrigin, "")
  /\ rootEl = LiveFlat

\* the subtrees of the document, in document order
Scopes == << rootEl, second.rootEl >>

\* document.querySelector: the first match in the document
ScopeOfDocument(i) == 1

\* this.rootEl.querySelector of the i-th element: the first match under
\* its own rootEl
ScopeOf(i) == i

\* the first element calls fetch(url)
FirstFetch(url) ==
  /\ fetch(url, NoOptions, Location)
  /\ WithinBounds(MaxFirst, 0)
  /\ UNCHANGED << config, rootEl, history, hidx, title, navs, popped,
                  _fetchDebounce, peers >>

\* the second element calls fetch(url)
SecondFetch(url) ==
  /\ second' = fetchOn(second, url, NoOptions, Location)
  /\ Len(second'.requests) <= MaxSecond
  /\ UNCHANGED << config, rootEl, _url, aborted, requests, thrown, typeErrors,
                  history, hidx, title, navs, popped,
                  _fetchDebounce, triggers >>

\* the first then-callback of request r of the second element
SecondRespond(r) ==
  /\ r \in DOMAIN second.requests
  /\ second.requests[r].stage = "pending"
  /\ ~(second.requests[r].signal = "controller" /\ second.aborted)
  /\ second' =
       [second EXCEPT
          !.requests[r].stage = "reading",
          !.requests[r].events =
            @ \o << Event("request-completed", "response") >>]
  /\ UNCHANGED << config, rootEl, _url, aborted, requests, thrown, typeErrors,
                  history, hidx, title, navs, popped,
                  _fetchDebounce, triggers >>

\* the second then-callback of request r of the second element, with a
\* body that has both fragments: _updateContent(text)
SecondUpdateContent(r) ==
  /\ r \in DOMAIN second.requests
  /\ second.requests[r].stage = "reading"
  /\ LET doc == parseFromString("flat", Label(second.requests[r].fetched),
                                MaxFirst + r)
         k == ScopeOf(2)
         ins == _insertContent(doc.root, targetSelectors, Scopes[k])
         after == [Scopes EXCEPT ![k] = ins.live]
     IN /\ rootEl' = after[1]
        /\ second' =
             [second EXCEPT
                !.rootEl = after[2],
                !.requests[r].stage = "done",
                !.requests[r].shape = "flat",
                !.requests[r].events =
                  @ \o << IF ins.threw THEN Event("error", "TypeError")
                          ELSE Event("content-updated", targetSelectors) >>]
  /\ UNCHANGED << config, _url, aborted, requests, thrown, typeErrors,
                  history, hidx, title, navs, popped,
                  _fetchDebounce, triggers >>

TwoNext ==
  \/ \E url \in TwoInputs : FirstFetch(url)
  \/ \E r \in 1..MaxFirst : Respond(r)
  \/ \E r \in 1..MaxFirst : UpdateContent(r, "flat")
  \/ \E url \in TwoInputs : SecondFetch(url)
  \/ \E r \in 1..MaxSecond : SecondRespond(r)
  \/ \E r \in 1..MaxSecond : SecondUpdateContent(r)

SpecTwo == TwoInit /\ [][TwoNext]_vars

\* ------------------------------------------------------------------------
\* The Polymer variant of fetch(url, options): the request is launched by a
\* callback that Debouncer.debounce schedules as a microtask
\* ------------------------------------------------------------------------
PolymerInputs ==
  { RootedUrl(n) : n \in Names } \cup { AbsoluteUrl(OtherOrigin, "p1") }

PolymerInit ==
  /\ Init
  /\ targetSelectors = << "#a", "#b" >>
  /\ ~updateHistory
  /\ rootEl = LiveFlat

\* the first argument of Object.assign in the Polymer variant
PolymerDefaults ==
  [method |-> "get", redirect |-> "follow", credentials |-> "same-origin"]

\* the callback that fetch(url, options) creates: a closure over the url
\* with its query string and over _options
Callback(url, options) ==
  LET merged == ObjectAssign(PolymerDefaults, options)
      hasParams == /\ "queryParams" \in DOMAIN merged
                   /\ merged.queryParams.truthy
  IN [url |-> IF hasParams
                THEN AppendQuery(url, Serialize(merged.queryParams.pairs))
                ELSE url,
      options |-> IF hasParams THEN Delete(merged, "queryParams") ELSE merged,
      override |-> options]

DebounceNoCancel(queue, callback) == Append(queue, callback)

\* Debouncer.debounce(debouncer, Async.microTask, callback): the callback
\* that an active debouncer has scheduled is cancelled, and callback is
\* scheduled
Debounce(queue, callback) == << callback >>

\* the host application calls fetch(url, options) of the Polymer variant
PolymerFetch(url, options) ==
  /\ _fetchDebounce.calls < MaxBurst
  /\ _fetchDebounce' =
       [_fetchDebounce EXCEPT
          !.queue = Debounce(@, Callback(url, options)),
          !.calls = @ + 1]
  /\ UNCHANGED << config, rootEl, _url, aborted, requests, thrown, typeErrors,
                  history, hidx, title, navs, popped, peers >>

\* the body of a callback on the element self, run while the document URL
\* is loc; the platform fetch(url, _options) gets no signal
RunCallback(self, callback, loc) ==
  IF ~CanParse(callback.url)
    THEN [self EXCEPT !.typeErrors = @ + 1]
    ELSE LET resolved == NewURL(callback.url, baseUrl)
         IN IF SameOrigin(resolved)
              THEN [self EXCEPT
                      !._url = resolved,
                      !.requests =
                        Append(@, [NetworkFetch(callback.url, callback.options,
                                                callback.override, loc,
                                                resolved)
                                     EXCEPT !.abortSignal = "none"])]
              ELSE [self EXCEPT !._url = resolved, !.thrown = @ + 1]

RECURSIVE RunCallbacks(_, _, _)
RunCallbacks(self, queue, loc) ==
  IF queue = <<>> THEN self
  ELSE RunCallbacks(RunCallback(self, Head(queue), loc), Tail(queue), loc)

\* the microtask checkpoint at the end of the running task: the scheduled
\* callbacks run
Microtask ==
  /\ _fetchDebounce.queue # <<>>
  /\ Becomes(RunCallbacks(This, _fetchDebounce.queue, Location))
  /\ WithinBounds(MaxDebounced, MaxThrow)
  /\ _fetchDebounce' =
       [queue |-> <<>>, calls |-> 0, flushed |-> _fetchDebounce.calls]
  /\ UNCHANGED << config, rootEl, history, hidx, title, navs, popped, peers >>

PolymerNext ==
  \/ \E url \in PolymerInputs : PolymerFetch(url, NoOptions)
  \/ Microtask

SpecPolymer == PolymerInit /\ [][PolymerNext]_vars

\* ------------------------------------------------------------------------
\* Properties
\* ------------------------------------------------------------------------
\* the names of the notifications of request r so far
EventNames(r) ==
  [i \in DOMAIN requests[r].events |-> requests[r].events[i].name]

\* this step is the one in which the body of request r is handed to
\* _updateContent
Processes(r) ==
  /\ r \in DOMAIN requests
  /\ requests[r].stage = "reading"
  /\ requests'[r].stage = "done"
  /\ requests'[r].shape # "none"

\* this step is a fetch() call (every call either launches or throws)
FetchCalled == Len(requests') # Len(requests) \/ thrown' # thrown

\* C1: when fetch(A) was followed by fetch(B) on the instance and B's
\* response has been processed, processing A's response changes neither the
\* DOM under the root scope nor the history.
C1_StaleResponseDiscarded ==
  [][\A r \in DOMAIN requests :
       ( /\ Processes(r)
         /\ \E s \in DOMAIN requests :
              s > r /\ requests[s].stage = "done" /\ requests[s].shape # "none" )
       => (rootEl' = rootEl /\ history' = history /\ hidx' = hidx)]_vars

\* C2: an instance never has more than one outstanding network request
\* (launched, neither settled nor cancelled).
C2_AtMostOneOutstanding ==
  Cardinality({ r \in DOMAIN requests :
                  requests[r].stage = "pending" /\ ~Cancelled(requests[r]) }) <= 1

\* C3: a fetch call whose url resolves to another origin than the page's
\* throws InvalidOriginError, launches no request and emits no
\* request-started.
C3_CrossOriginRejected ==
  [][(FetchCalled /\ _url'.org # PageOrigin)
       => (thrown' = thrown + 1 /\ requests' = requests)]_vars

C3_Witness == thrown > 0 /\ _url.org # PageOrigin /\ Len(requests) > 0

\* the parsed document of the body that request r read in this step
ParsedRoot(r) ==
  parseFromString(requests'[r].shape, Label(requests[r].fetched), r).root

\* the notifications request r emitted in this step
Emitted(r) ==
  SubSeq(EventNames(r)', Len(requests[r].events) + 1,
         Len(requests'[r].events))

Has(seq, n) == \E i \in DOMAIN seq : seq[i] = n

HasFragment(root, sel) == querySelector(root, sel) # NoPath

\* the identities of the element children of a node, in order
KidIds(node) == [i \in DOMAIN node.kids |-> node.kids[i].id]

RECURSIVE PathOfId(_, _, _)
\* path of the descendant of node with identity id, searching from child i
PathOfId(node, id, i) ==
  IF i > Len(node.kids) THEN NoPath
  ELSE IF node.kids[i].id = id THEN <<i>>
  ELSE LET p == PathOfId(node.kids[i], id, 1)
       IN IF p # NoPath THEN <<i>> \o p ELSE PathOfId(node, id, i + 1)

\* the mount node that sel selects before the step holds, after the step,
\* the children of the fragment node of the parsed document (the same nodes
\* in the same order, or the same text when there are no elements) and
\* exactly its classes
MountPatched(doc, sel) ==
  LET fragment == NodeAt(doc, querySelector(doc, sel))
      mountId == NodeAt(rootEl, querySelector(rootEl, sel)).id
      p == PathOfId(rootEl', mountId, 1)
  IN p # NoPath =>
       LET mount == NodeAt(rootEl', p)
       IN /\ KidIds(mount) = KidIds(fragment)
          /\ Len(fragment.kids) = 0 => mount.text = fragment.text
          /\ mount.cls = fragment.cls

\* the mount node that sel selects before the step is the same after it
MountUntouched(sel) ==
  LET tp == querySelector(rootEl, sel)
  IN /\ querySelector(rootEl', sel) = tp
     /\ NodeAt(rootEl', tp) = NodeAt(rootEl, tp)

\* C4: when the response document has no node for a selector and the root
\* scope has a mount node for it, processing the response leaves that mount
\* node unmodified (same children, same classes).
C4_MissingFragmentLeavesMount ==
  [][\A r \in DOMAIN requests : Processes(r) =>
       \A i \in DOMAIN targetSelectors :
         ( /\ ~HasFragment(ParsedRoot(r), targetSelectors[i])
           /\ HasFragment(rootEl, targetSelectors[i]) )
         => MountUntouched(targetSelectors[i])]_vars

\* C5: a selector whose fragment node or mount node is missing does not stop
\* the cycle: content-updated is emitted, no error is emitted, and every
\* selector that has both nodes is patched.
C5_SkipIsNotFatal ==
  [][\A r \in DOMAIN requests :
       ( /\ Processes(r)
         /\ requests'[r].shape # "empty"
         /\ \E i \in DOMAIN targetSelectors :
              \/ ~HasFragment(ParsedRoot(r), targetSelectors[i])
              \/ ~HasFragment(rootEl, targetSelectors[i]) )
       => ( /\ Has(Emitted(r), "content-updated")
            /\ ~Has(Emitted(r), "error")
            /\ \A i \in DOMAIN targetSelectors :
                 ( /\ HasFragment(ParsedRoot(r), targetSelectors[i])
                   /\ HasFragment(rootEl, targetSelectors[i]) )
                 => MountPatched(ParsedRoot(r), targetSelectors[i]) )]_vars

\* C6: when the response document has a fragment node and the root scope a
\* mount node for every selector, then after a successful cycle every mount
\* node holds the fragment's children in order and exactly its classes.
C6_MountsEqualFragments ==
  [][\A r \in DOMAIN requests :
       ( /\ Processes(r)
         /\ Has(Emitted(r), "content-updated")
         /\ \A i \in DOMAIN targetSelectors :
              /\ HasFragment(ParsedRoot(r), targetSelectors[i])
              /\ HasFragment(rootEl, targetSelectors[i]) )
       => \A i \in DOMAIN targetSelectors :
            MountPatched(ParsedRoot(r), targetSelectors[i])]_vars

\* a successful cycle patched both mount nodes of the page from a response
\* that has both fragments
C6_Witness ==
  \E r \in DOMAIN requests :
    /\ requests[r].shape = "flat"
    /\ Has(EventNames(r), "content-updated")
    /\ HasFragment(rootEl, "#a") /\ HasFragment(rootEl, "#b")
    /\ NodeAt(rootEl, querySelector(rootEl, "#a")).cls = {"new"}
    /\ KidIds(NodeAt(rootEl, querySelector(rootEl, "#a")))
         = << 10 * r + 3, 10 * r + 4 >>
    /\ NodeAt(rootEl, querySelector(rootEl, "#b")).cls = {}
    /\ NodeAt(rootEl, querySelector(rootEl, "#b")).text
         = Label(requests[r].fetched)

\* C7: a step that emits an error notification for a cycle applies no DOM
\* mutation: the tree under the root scope is the same before and after.
C7_ErrorMeansNoMutation ==
  [][\A r \in DOMAIN requests :
       Has(Emitted(r), "error") => rootEl' = rootEl]_vars

\* C8: when the network request of a cycle fails, the cycle's notifications
\* are request-started and then one error that carries the failure, and the
\* failing step changes neither the DOM nor the history nor the document
\* title and launches no request.
C8_NetworkFailureReportedOnce ==
  [][\A r \in DOMAIN requests' :
       requests'[r].stage = "failed" =>
         /\ EventNames(r)' = << "request-started", "error" >>
         /\ requests'[r].events[2].detail = "NetworkError"
         /\ (r \in DOMAIN requests /\ requests[r].stage = "pending") =>
              /\ rootEl' = rootEl
              /\ << history, hidx, title >>' = << history, hidx, title >>
              /\ Len(requests') = Len(requests)]_vars

\* a request failed while another one was still in flight
C8_Witness ==
  \E r, s \in DOMAIN requests :
    requests[r].stage = "failed" /\ requests[s].stage = "pending"

\* no request is outstanding after this step
Idle == \A r \in DOMAIN requests' : requests'[r].stage \in {"done", "failed"}

\* C9: with history tracking enabled, when a response has been processed
\* successfully and no request is outstanding, the path of the current
\* history entry is the path of the request whose content was just patched
\* into the mount nodes.
C9_HistoryMatchesDisplayed ==
  [][\A r \in DOMAIN requests :
       ( /\ updateHistory
         /\ Processes(r)
         /\ Has(Emitted(r), "content-updated")
         /\ Idle )
       => history'[hidx'].path = Pathname(requests[r].resolved)]_vars

\* no two neighbouring history entries carry states with the same path
NoRepeatedEntry ==
  \A i \in 1..(Len(history) - 1) :
    (history[i].state # <<>> /\ history[i + 1].state # <<>>)
      => history[i].state[1].url # history[i + 1].state[1].url

\* C10: with history tracking enabled, a successful cycle pushes a history
\* entry exactly when there is no current state or the current state's path
\* differs from the path of this._url; so the history never holds the same
\* path in two neighbouring entries.
C10_PushOnlyOnPathChange ==
  [][ /\ \A r \in DOMAIN requests :
           ( /\ updateHistory
             /\ Processes(r)
             /\ Has(Emitted(r), "content-updated") )
           => /\ (hidx' = hidx + 1)
                   <=> ( \/ history[hidx].state = <<>>
                         \/ history[hidx].state[1].url # Pathname(_url) )
              /\ hidx' = hidx + 1 =>
                   /\ Len(history') = hidx + 1
                   /\ SubSeq(history', 1, hidx) = SubSeq(history, 1, hidx)
                   /\ history'[hidx'].state[1].url = Pathname(_url)
              /\ hidx' # hidx + 1 => << history, hidx >>' = << history, hidx >>
      /\ NoRepeatedEntry' ]_vars

\* two cycles for the same path succeeded and only one entry was pushed
C10_Witness ==
  /\ updateHistory
  /\ Len(history) = 2
  /\ \E r, s \in DOMAIN requests :
       /\ r # s
       /\ requests[r].resolved = requests[s].resolved
       /\ Has(EventNames(r), "history-updated")
       /\ Has(EventNames(s), "history-updated")

\* C11: with history tracking enabled, after a successfully processed
\* response the document title is the title of that response's parsed
\* document, whether or not a history entry was pushed.
C11_TitleFollowsResponse ==
  [][\A r \in DOMAIN requests :
       ( /\ updateHistory
         /\ Processes(r)
         /\ Has(Emitted(r), "content-updated") )
       => title' = parseFromString(requests'[r].shape,
                                   Label(requests[r].fetched), r).title]_vars

\* a cycle set the title although the current history entry, pushed by
\* another cycle, carries another title
C11_Witness ==
  /\ updateHistory
  /\ history[hidx].state # <<>>
  /\ history[hidx].state[1].title # title
  /\ \E r \in DOMAIN requests :
       /\ Has(EventNames(r), "history-updated")
       /\ title = Label(requests[r].fetched)

\* C13: a request carries request-started from the fetch call that launched
\* it, before anything of its response is processed; a cycle that reaches
\* content-updated has emitted request-started, request-completed,
\* content-updated and, with history tracking only, history-updated, once
\* each and in this order.
C13_NotificationOrder ==
  \A r \in DOMAIN requests :
    /\ requests[r].stage = "pending"
         => EventNames(r) = << "request-started" >>
    /\ requests[r].stage = "reading"
         => EventNames(r) = << "request-started", "request-completed" >>
    /\ Has(EventNames(r), "content-updated")
         => EventNames(r) =
              << "request-started", "request-completed", "content-updated" >>
                \o (IF updateHistory THEN << "history-updated" >> ELSE <<>>)

\* a cycle with history tracking ran to its end while a later request of
\* the instance was already started
C13_Witness ==
  \E r, s \in DOMAIN requests :
    /\ r < s
    /\ Len(requests[r].events) = 4
    /\ requests[r].events[4].name = "history-updated"
    /\ requests[s].stage = "pending"

\* the cancellation token request r was created with is signalled
TokenSignalled(r) ==
  requests[r].abortSignal = "controller" /\ aborted

\* C18: the cancellation token of a request is not signalled when the
\* request is launched, and is signalled only once a later fetch of the
\* instance has superseded the request.
C18_TokenFreshAtLaunch ==
  \A r \in DOMAIN requests :
    TokenSignalled(r) => \E s \in DOMAIN requests : s > r

\* the path of the last request the instance issued
LastRequestPath == Pathname(requests[Len(requests)].resolved)

\* C12: on a pop navigation with history tracking enabled, a stored state
\* whose path differs from the path of the last request issued makes the
\* instance issue exactly one fetch, for the stored path; no state, or the
\* same path (whatever the fragment identifier), makes it issue none.
C12_PopRefetchesOnPathChange ==
  [][(updateHistory /\ navs' = navs + 1) =>
       LET state == history[hidx'].state
       IN IF state # <<>> /\ Len(requests) > 0
               /\ state[1].url # LastRequestPath
            THEN /\ Len(requests') = Len(requests) + 1
                 /\ SubSeq(requests', 1, Len(requests)) = requests
                 /\ LastRequestPath' = state[1].url
                 /\ thrown' = thrown
            ELSE requests' = requests /\ thrown' = thrown]_vars

\* the history entries the instance pushed
Pushed == { i \in DOMAIN history : history[i].state # <<>> }

\* C20: the history holds one entry per distinct navigated path: no two
\* entries pushed by the instance have the same path.
C20_OneEntryPerPath ==
  \A i, j \in Pushed : i # j => history[i].path # history[j].path

\* C20, amended: no two entries pushed by the instance that are neighbours
\* in the history have the same path (a path visited again after another
\* one gets a second entry).
C20_NoNeighboursWithSamePath ==
  \A i, j \in Pushed : j = i + 1 => history[i].path # history[j].path

\* the instance returned to a path after visiting another one
C20_Witness ==
  \E i, j \in Pushed :
    /\ j > i + 1
    /\ history[i].path = history[j].path
    /\ \E r \in DOMAIN requests :
         /\ Len(requests[r].events) = 4
         /\ requests[r].events[4].detail.state.url = history[j].path

\* this step is a click on anchor e
Clicked(e) ==
  /\ triggers'.clicks = triggers.clicks + 1
  /\ triggers'.target = e

\* C14: once the triggers element is disconnected no anchor carries a
\* listener it added, and a click on an anchor then navigates away from the
\* page and starts no request.
C14_DisconnectUnbinds ==
  [][ /\ ~triggers'.connected
          => \A e \in Anchors : triggers'.listeners[e] = {}
      /\ \A e \in Anchors :
           (Clicked(e) /\ ~triggers.connected)
             => (triggers'.left /\ requests' = requests) ]_vars

QueryPieces(u) == { u.query[i] : i \in DOMAIN u.query }

\* C17: the options of every request launched are the defaults method,
\* redirect and credentials overridden key by key by the caller's options,
\* have no queryParams key, and every pair of the caller's queryParams is an
\* encoded key=value piece of the query string of the requested URL.
C17_OptionsMergedParamsInQuery ==
  \A r \in DOMAIN requests :
    LET req == requests[r]
        keys == ({"method", "redirect", "credentials"} \cup DOMAIN req.override)
                  \ {"queryParams"}
    IN /\ \A k \in keys :
            /\ k \in DOMAIN req.options
            /\ req.options[k] = IF k \in DOMAIN req.override
                                  THEN req.override[k] ELSE Defaults[k]
       /\ "queryParams" \notin DOMAIN req.options
       /\ "queryParams" \in DOMAIN req.override
            => \A i \in DOMAIN req.override.queryParams.pairs :
                 << encodeURIComponent(req.override.queryParams.pairs[i][1]),
                    encodeURIComponent(req.override.queryParams.pairs[i][2]) >>
                   \in QueryPieces(req.fetched)

\* C19: every fetch() call either throws InvalidOriginError and launches
\* nothing, or has launched a request and dispatched request-started for it
\* when it returns.
C19_OnlyInvalidOriginAborts ==
  [][ \/ thrown' = thrown + 1 /\ requests' = requests /\ typeErrors' = typeErrors
      \/ /\ Len(requests') = Len(requests) + 1
         /\ requests'[Len(requests')].events[1].name = "request-started"
         /\ thrown' = thrown
         /\ typeErrors' = typeErrors ]_vars
\* the mount node that sel selects under root holds the children and the
\* classes of the fragment node that sel selects in doc
MountShows(root, doc, sel) ==
  LET fragment == NodeAt(doc, querySelector(doc, sel))
      mount == NodeAt(root, querySelector(root, sel))
  IN /\ HasFragment(root, sel)
     /\ KidIds(mount) = KidIds(fragment)
     /\ Len(fragment.kids) = 0 => mount.text = fragment.text
     /\ mount.cls = fragment.cls

\* the document parsed from the body of request r of the second element
SecondParsedRoot(r) ==
  parseFromString("flat", Label(second.requests[r].fetched), MaxFirst + r).root

\* C16: with two elements in one page, each with its own rootEl, a step of
\* one element (a fetch call or a response callback) changes nothing of the
\* other: not its rootEl, not its this._url, not its abort signal, not its
\* requests; and every response that an element processes is patched into
\* the mount nodes of its own rootEl and notified with content-updated,
\* whatever the other element did in between.
C16_InstancesIndependent ==
  [][ /\ second'.requests # second.requests
          => /\ rootEl' = rootEl
             /\ _url' = _url
             /\ aborted' = aborted
             /\ requests' = requests
      /\ requests' # requests => second' = second
      /\ \A r \in DOMAIN requests :
           Processes(r)
             => /\ Has(Emitted(r), "content-updated")
                /\ \A i \in DOMAIN targetSelectors :
                     MountShows(rootEl', ParsedRoot(r), targetSelectors[i])
      /\ \A r \in DOMAIN second.requests :
           ( /\ second.requests[r].stage = "reading"
             /\ second'.requests[r].stage = "done" )
             => /\ second'.requests[r].events[Len(second'.requests[r].events)].name
                     = "content-updated"
                /\ \A i \in DOMAIN targetSelectors :
                     MountShows(second'.rootEl, SecondParsedRoot(r),
                                targetSelectors[i]) ]_vars

\* both elements superseded a request of their own, and the mount nodes of
\* each show the response it processed last
C16_Witness ==
  /\ Len(requests) = 2 /\ Len(second.requests) = 2
  /\ requests[1].stage = "done" /\ requests[2].stage = "pending"
  /\ second.requests[2].stage = "done"
  /\ second.requests[1].stage = "reading"
  /\ MountShows(rootEl,
                parseFromString("flat", Label(requests[1].fetched), 1).root,
                "#a")
  /\ MountShows(second.rootEl, SecondParsedRoot(2), "#a")
  /\ Label(requests[1].fetched) # Label(second.requests[2].fetched)
\* C21: the URL that every launched request asks the network for is the url
\* argument resolved against baseUrl, the absolute URL that request-started
\* reports.
C21_RequestedIsResolved ==
  \A r \in DOMAIN requests :
    /\ requests[r].events[1].name = "request-started"
    /\ requests[r].events[1].detail = requests[r].resolved
    /\ requests[r].fetched = requests[r].resolved
\* C22: while the triggers element stays connected, an anchor without
\* listener gets none, also when it is added as a matching element; and a
\* click on an anchor without listener calls neither fetch nor window.open
\* and navigates away.  Only connectedCallback() gives an anchor a listener.
C22_NoRescanAfterConnect ==
  [][ \A e \in Anchors :
        /\ (triggers.listeners[e] = {} /\ triggers'.listeners[e] # {})
             => (~triggers.connected /\ triggers'.connected)
        /\ (Clicked(e) /\ triggers.listeners[e] = {})
             => /\ requests' = requests
                /\ thrown' = thrown
                /\ triggers'.opened = triggers.opened
                /\ triggers'.left ]_vars

\* anchor e1 was added as a matching element while the triggers element was
\* connected (e2 carries its listener), and the click on e1 navigated away
C22_Witness ==
  /\ triggers.connected
  /\ triggers.made = 1
  /\ triggers.listeners["e2"] = {1}
  /\ triggers.attr["e1"]
  /\ triggers.listeners["e1"] = {}
  /\ triggers.target = "e1"
  /\ triggers.left
  /\ requests = <<>>

\* C26: over a set of matching anchors that does not change, whatever the
\* sequence of connections and disconnections, every anchor carries at most
\* one listener, and one click makes at most one call of fetch or of
\* window.open.
C26_AtMostOneListener ==
  [][ /\ \A e \in Anchors : Cardinality(triggers'.listeners[e]) <= 1
      /\ \A e \in Anchors :
           Clicked(e)
             => (Len(requests') - Len(requests))
                  + (thrown' - thrown) + (typeErrors' - typeErrors)
                  + (triggers'.opened - triggers.opened) <= 1 ]_vars

\* after a second connection a click on e1 launched the only request
C26_Witness ==
  /\ triggers.made = 2
  /\ triggers.connected
  /\ triggers.listeners["e1"] = {2}
  /\ triggers.clicks = 1
  /\ triggers.target = "e1"
  /\ Len(requests) = 1
\* the number of notifications named n that request r has emitted
Count(r, n) ==
  Cardinality({ i \in DOMAIN requests[r].events : requests[r].events[i].name = n })

\* C23: a request whose promise chain has run to its end has emitted exactly
\* one of content-updated and error, whatever the body was; history-updated
\* comes with content-updated only, and always when history tracking is
\* enabled.
C23_OneTerminalNotification ==
  \A r \in DOMAIN requests :
    requests[r].stage \in {"done", "failed"}
      => /\ Count(r, "content-updated") + Count(r, "error") = 1
         /\ Count(r, "history-updated") =
              IF updateHistory THEN Count(r, "content-updated") ELSE 0
\* C24: a fetch() call that throws InvalidOriginError changes neither
\* this._url nor the abort signal nor the requests; and when the response of
\* the last request launched is processed, the history entry pushed and the
\* history-updated notification carry the URL of that request.
C24_RejectedCallChangesNothing ==
  [][ /\ thrown' = thrown + 1
          => /\ _url' = _url
             /\ aborted' = aborted
             /\ requests' = requests
      /\ \A r \in DOMAIN requests :
           (Processes(r) /\ r = Len(requests))
             => /\ hidx' = hidx + 1
                     => history'[hidx'].path = Pathname(requests[r].resolved)
                /\ Has(Emitted(r), "history-updated")
                     => requests'[r].events[Len(requests'[r].events)].detail.url
                          = requests[r].resolved ]_vars
\* this step processes the response of the request that the last popstate
\* event launched, and fetch() was not called since
ProcessesPopped(r) ==
  /\ Processes(r)
  /\ r = popped.request
  /\ Len(requests) = popped.request
  /\ thrown = popped.thrown

\* C25: processing the response of a request launched by a popstate event,
\* with no fetch() call in between, pushes no history entry: the history is
\* the one the pop left and the current entry does not change.
C25_PopRefetchPushesNothing ==
  [][\A r \in DOMAIN requests :
       ProcessesPopped(r) => (history' = popped.history /\ hidx' = hidx)]_vars

\* C25, amended: the same when, in addition, the user made no further
\* back/forward navigation in between; the history and the current entry
\* are then those immediately after the pop.
C25_PopRefetchPushesNothingIfNoMove ==
  [][\A r \in DOMAIN requests :
       (ProcessesPopped(r) /\ navs = popped.navs)
         => (history' = popped.history /\ hidx' = popped.hidx)]_vars

\* the response of a request launched by going back was processed and the
\* entry to go forward to is still there
C25_Witness ==
  /\ popped.request > 0
  /\ Len(requests) = popped.request
  /\ thrown = popped.thrown
  /\ navs = popped.navs
  /\ requests[popped.request].stage = "done"
  /\ Has(EventNames(popped.request), "history-updated")
  /\ history = popped.history
  /\ hidx = popped.hidx
  /\ hidx < Len(history)
\* C27: in the Polymer variant a fetch() call launches no request, changes
\* nothing of the element and emits nothing, and leaves one callback
\* scheduled, its own; the microtask checkpoint that follows the calls runs
\* that callback alone: it launches one request, for the url of the last
\* call, with the one notification request-started, or throws
\* InvalidOriginError.
C27_DebouncedCallsCoalesce ==
  [][ /\ _fetchDebounce'.calls = _fetchDebounce.calls + 1
          => /\ requests' = requests
             /\ thrown' = thrown
             /\ _url' = _url
             /\ Len(_fetchDebounce'.queue) = 1
      /\ (_fetchDebounce.queue # <<>> /\ _fetchDebounce'.queue = <<>>)
          => LET last == _fetchDebounce.queue[Len(_fetchDebounce.queue)]
             IN \/ /\ Len(requests') = Len(requests) + 1
                   /\ SubSeq(requests', 1, Len(requests)) = requests
                   /\ requests'[Len(requests')].resolved
                        = NewURL(last.url, baseUrl)
                   /\ Len(requests'[Len(requests')].events) = 1
                   /\ requests'[Len(requests')].events[1].name
                        = "request-started"
                   /\ thrown' = thrown
                \/ /\ requests' = requests
                   /\ thrown' = thrown + 1 ]_vars

\* two calls were made before the checkpoint and one request was launched
C27_Witness ==
  /\ _fetchDebounce.flushed = 2
  /\ _fetchDebounce.queue = <<>>
  /\ Len(requests) = 1
  /\ thrown = 0
====
